---------------------------- MODULE Spec2Model ----------------------------
(***************************************************************************)
(* Legacy trace.has()/trace.count() condition converter                    *)
(* (backend/scripts/convert-yaml-dsl.py) and the ParseError refactoring of *)
(* the DSL parser (backend/refactor-parser.py).                            *)
(*                                                                         *)
(* Text is a sequence of lexemes.  Every lexeme is a run of characters of  *)
(* the text; the lexemes are chosen so that each regular expression of the *)
(* converter consumes whole lexemes: ")" and the white-space characters    *)
(* are lexemes of their own, "trace.has(", "trace.count(" and ".where("    *)
(* are the only lexemes holding those characters, an operator lexeme holds *)
(* only characters of [!<>=] and a digit lexeme only digits.               *)
(***************************************************************************)
EXTENDS Integers, Sequences, FiniteSets, TLC

VARIABLES
    input,               \* rules of the input document (yaml.safe_load)
    data,                \* data['rules'], converted in place by the loop
    idx,                 \* position of the for loop in data['rules']
    converted_count,
    needs_review_count,
    produced,            \* convert_condition's result for the last rule converted
    output,              \* the output document: header counts and rules
    pc,                  \* "loop", "done"
    run,                 \* 1: first run; 2: the script run again on its output
    site,                \* parser: the throw site the parser stands at
    token,               \* parser: the token lexer.next() returned last
    error                \* parser: the ParseError raised, or NoError

vars == <<input, data, idx, converted_count, needs_review_count, produced,
          output, pc, run, site, token, error>>

convVars == <<input, data, idx, converted_count, needs_review_count, produced,
              output, pc, run>>

parserVars == <<site, token, error>>

-----------------------------------------------------------------------------
(* Bounds *)

MaxTerms == 3        \* terms of a generated legacy condition
MaxRules == 2        \* rules of a generated multi-rule document

-----------------------------------------------------------------------------
(* Lexemes and the character classes of the regular expressions *)

SP == " "
NL == "\n"

\* \s
IsSpace(t) == t \in {SP, NL}

\* [^)]
IsNotRParen(t) == t # ")"

\* [!<>=]  (and [><=!])
IsOp(t) == t \in {"==", "!=", ">", "<", ">=", "<="}

\* \d
IsDigit(t) == t \in {"1", "5"}

InClass(c, t) ==
    CASE c = "s"  -> IsSpace(t)
      [] c = "np" -> IsNotRParen(t)
      [] c = "op" -> IsOp(t)
      [] c = "d"  -> IsDigit(t)

\* the end of the longest run of class c starting at p
RECURSIVE RunEnd(_, _, _)
RunEnd(s, p, c) ==
    IF p <= Len(s) /\ InClass(c, s[p]) THEN RunEnd(s, p + 1, c) ELSE p

\* The elements of a regular expression
Lit(t) == [k |-> "lit", a |-> t]           \* literal text
Plus(c) == [k |-> "plus", a |-> c]         \* [c]+
Star(c) == [k |-> "star", a |-> c]         \* [c]*
Open(g) == [k |-> "open", a |-> g]         \* ( of group g
Close(g) == [k |-> "close", a |-> g]       \* ) of group g
Opt(n) == [k |-> "opt", a |-> n]           \* the next n elements are ( ... )?
NotAhead(t) == [k |-> "nla", a |-> t]      \* (?!t)

\* a match: the position after it (0: no match) and the span of each group
NoGroups == [g \in 1..4 |-> <<0, 0>>]
NoMatch == [end |-> 0, g |-> NoGroups]

\* The backtracking matcher: re from element i on, against s from position p
\* on.  A repetition takes as much as it can and gives back one lexeme at a
\* time; an optional group is tried first and skipped if the rest fails.
RECURSIVE Run(_, _, _, _, _)
RECURSIVE GiveBack(_, _, _, _, _, _)
Run(re, i, s, p, groups) ==
    IF i > Len(re) THEN [end |-> p, g |-> groups]
    ELSE LET e == re[i] IN
        CASE e.k = "lit" ->
                IF p <= Len(s) /\ s[p] = e.a THEN Run(re, i + 1, s, p + 1, groups)
                ELSE NoMatch
          [] e.k = "plus" -> GiveBack(re, i, s, p + 1, RunEnd(s, p, e.a), groups)
          [] e.k = "star" -> GiveBack(re, i, s, p, RunEnd(s, p, e.a), groups)
          [] e.k = "open" ->
                Run(re, i + 1, s, p, [groups EXCEPT ![e.a] = <<p, 0>>])
          [] e.k = "close" ->
                Run(re, i + 1, s, p, [groups EXCEPT ![e.a] = <<groups[e.a][1], p>>])
          [] e.k = "opt" ->
                LET taken == Run(re, i + 1, s, p, groups)
                IN  IF taken.end # 0 THEN taken
                    ELSE Run(re, i + 1 + e.a, s, p, groups)
          [] e.k = "nla" ->
                IF p <= Len(s) /\ s[p] = e.a THEN NoMatch
                ELSE Run(re, i + 1, s, p, groups)

GiveBack(re, i, s, lo, hi, groups) ==
    IF hi < lo THEN NoMatch
    ELSE LET rest == Run(re, i + 1, s, hi, groups)
         IN  IF rest.end # 0 THEN rest
             ELSE GiveBack(re, i, s, lo, hi - 1, groups)

\* match.group(n), "" for a group that took no part in the match
Group(s, m, n) ==
    IF m.g[n][2] = 0 THEN <<>> ELSE SubSeq(s, m.g[n][1], m.g[n][2] - 1)

\* trace\.has\(([^)]+)\)
ReHas(g) == <<Lit("trace.has("), Open(g), Plus("np"), Close(g), Lit(")")>>

\* trace\.count\(([^)]+)\)
ReCount(g) == <<Lit("trace.count("), Open(g), Plus("np"), Close(g), Lit(")")>>

\* (\.where\([^)]+\))
ReWhere(g) == <<Open(g), Lit(".where("), Plus("np"), Lit(")"), Close(g)>>

\* \s+and\s+
ReAnd == <<Plus("s"), Lit("and"), Plus("s")>>

\* \s+and\s+not\s+
ReAndNot == ReAnd \o <<Lit("not"), Plus("s")>>

\* str.strip()
RECURSIVE LStrip(_)
LStrip(s) == IF s # <<>> /\ IsSpace(Head(s)) THEN LStrip(Tail(s)) ELSE s

RECURSIVE RStrip(_)
RStrip(s) ==
    IF s # <<>> /\ IsSpace(s[Len(s)]) THEN RStrip(SubSeq(s, 1, Len(s) - 1)) ELSE s

Strip(s) == RStrip(LStrip(s))

\* sub in s
Contains(s, sub) ==
    \E i \in 1..(Len(s) - Len(sub) + 1) : SubSeq(s, i, i + Len(sub) - 1) = sub

StartsWith(s, pre) == Len(s) >= Len(pre) /\ SubSeq(s, 1, Len(pre)) = pre

-----------------------------------------------------------------------------
(* convert_condition: the recognizers, in the order the code tries them *)

\* re.search would start at the first trace.has( / trace.count( of the text
ReSearchStart(s) ==
    LET at == {i \in 1..Len(s) : s[i] \in {"trace.has(", "trace.count("}}
    IN  IF at = {} THEN 1 ELSE CHOOSE i \in at : \A j \in at : i <= j

\* re.match: the pattern is matched at the beginning of the text
ReStart(s) == 1

When(body) == <<"when", SP, "{", SP>> \o body \o <<SP, "}">>
Always(body) == <<SP, "always", SP, "{", SP>> \o body \o <<SP, "}">>
Never(body) == <<SP, "never", SP, "{", SP>> \o body \o <<SP, "}">>

TodoTag == <<"#", SP, "TODO">>
TodoAddClause == TodoTag \o <<": Add always/never clause">>
TodoAddClauseAlert == TodoAddClause \o <<" (e.g., always { alert })">>
TodoManual == TodoTag \o <<": Manual conversion required">>
TodoIn ==
    TodoTag \o <<": DSL doesn't support 'in' operator - convert to multiple != checks">>

\* Pattern 1: trace.has(A)[.where(...)] and not trace.has(B)
Pattern1 == ReHas(1) \o <<Opt(5)>> \o ReWhere(2) \o ReAndNot \o ReHas(3)

\* Pattern 2: trace.has(A) and trace.has(B) and trace.has(C).where(...)
Pattern2 == ReHas(1) \o ReAnd \o ReHas(2) \o ReAnd \o ReHas(3) \o ReWhere(4)

\* Pattern 3: trace.has(A).where(...) and trace.has(B).where(...)
Pattern3 == ReHas(1) \o ReWhere(2) \o ReAnd \o ReHas(3) \o ReWhere(4)

\* Pattern 4a: trace.has(A).where(...) and trace.has(B), B without .where
Pattern4a == ReHas(1) \o ReWhere(2) \o ReAnd \o ReHas(3) \o <<NotAhead(".where(")>>

\* Pattern 4b: trace.has(A) and trace.has(B).where(...)
Pattern4b == ReHas(1) \o ReAnd \o ReHas(2) \o ReWhere(3)

\* Pattern 5: trace.has(A) and trace.has(B)
Pattern5 == ReHas(1) \o ReAnd \o ReHas(2)

\* Pattern 6: trace.count(X) OP trace.count(Y)
Pattern6 ==
    ReCount(1) \o <<Star("s"), Open(2), Plus("op"), Close(2), Star("s")>> \o ReCount(3)

\* Pattern 7: trace.count(X) OP N
Pattern7 ==
    ReCount(1) \o <<Star("s"), Open(2), Plus("op"), Close(2), Star("s"),
                    Open(3), Plus("d"), Close(3)>>

\* Pattern 8: trace.has(X).where(...)
Pattern8 == ReHas(1) \o ReWhere(2)

\* Pattern 9: trace.has(X)
Pattern9 == ReHas(1)

\* The patterns in the order of the `if match: return` cascade.  Spec shapes
\* 1..10 are n = 1..10 (Pattern 4a is 4, 4b is 5, 5 is 6, ...).
Pattern(n) ==
    CASE n = 1  -> Pattern1
      [] n = 2  -> Pattern2
      [] n = 3  -> Pattern3
      [] n = 4  -> Pattern4a
      [] n = 5  -> Pattern4b
      [] n = 6  -> Pattern5
      [] n = 7  -> Pattern6
      [] n = 8  -> Pattern7
      [] n = 9  -> Pattern8
      [] n = 10 -> Pattern9

\* re.match(pattern, condition)
ReMatch(re, s) == Run(re, 1, s, ReStart(s), NoGroups)

\* the f-string returned when pattern n matched with m
Returned(n, s, m) ==
    CASE n = 1  -> When(Group(s, m, 1) \o Group(s, m, 2)) \o Never(Group(s, m, 3))
      [] n = 2  -> When(Group(s, m, 1) \o <<SP, "and", SP>> \o Group(s, m, 2))
                   \o Always(Group(s, m, 3) \o Group(s, m, 4))
      [] n = 3  -> When(Group(s, m, 1) \o Group(s, m, 2))
                   \o Always(Group(s, m, 3) \o Group(s, m, 4))
      [] n = 4  -> When(Group(s, m, 1) \o Group(s, m, 2)) \o Always(Group(s, m, 3))
      [] n = 5  -> When(Group(s, m, 1)) \o Always(Group(s, m, 2) \o Group(s, m, 3))
      [] n = 6  -> When(Group(s, m, 1)) \o Always(Group(s, m, 2))
      [] n = 7  -> TodoAddClause \o <<NL>>
                   \o When(<<"count(">> \o Group(s, m, 1) \o <<")", SP>> \o Group(s, m, 2)
                           \o <<SP, "count(">> \o Group(s, m, 3) \o <<")">>)
      [] n = 8  -> TodoAddClauseAlert \o <<NL>>
                   \o When(<<"count(">> \o Group(s, m, 1) \o <<")", SP>> \o Group(s, m, 2)
                           \o <<SP>> \o Group(s, m, 3))
      [] n = 9  -> TodoAddClause \o <<NL>> \o When(Group(s, m, 1) \o Group(s, m, 2))
      [] n = 10 -> TodoAddClause \o <<NL>> \o When(Group(s, m, 1))

\* Couldn't parse: the text as a comment for manual review
Fallback(s) == TodoManual \o <<NL, "#", SP, "Original:", SP>> \o s

\* recognizer n on the text: where its match ends (0: no match) and what it
\* returns
Recognizer(n, s) ==
    LET m == ReMatch(Pattern(n), s)
    IN  [end |-> m.end, out |-> IF m.end = 0 THEN <<>> ELSE Returned(n, s, m)]

Matches(n, s) == Recognizer(n, s).end # 0

\* the cascade with shape 6 tried before shapes 2..5
FirstMatchGeneralFirst(s) ==
    IF Matches(1, s) THEN 1
    ELSE IF Matches(6, s) THEN 6
    ELSE IF \E n \in 1..10 : Matches(n, s)
         THEN CHOOSE n \in 1..10 : Matches(n, s) /\ \A m \in 1..(n - 1) : ~Matches(m, s)
         ELSE 11

\* the first recognizer that matches, 11 when none does
FirstMatch(s) ==
    IF \E n \in 1..10 : Matches(n, s)
    THEN CHOOSE n \in 1..10 : Matches(n, s) /\ \A m \in 1..(n - 1) : ~Matches(m, s)
    ELSE 11

\* which recognizer decides convert_condition(old_condition)
Fired(old_condition) == FirstMatch(Strip(old_condition))

convert_condition(old_condition) ==
    LET condition == Strip(old_condition)
        n == FirstMatch(condition)
    IN  IF n = 11 THEN Fallback(condition) ELSE Recognizer(n, condition).out

-----------------------------------------------------------------------------
(* Legacy conditions and rule documents the converter is run on *)

Has(name) == <<"trace.has(">> \o name \o <<")">>
Count(name) == <<"trace.count(">> \o name \o <<")">>
Where(cmp) == <<".where(">> \o cmp \o <<")">>

Terms ==
    { Has(<<"A">>),
      Has(<<"A">>) \o Where(<<"x", "==", "1">>),
      Has(<<"A">>) \o Where(<<"x", SP, "in", SP, "[", "1", "]">>),
      Count(<<"X">>),
      <<"5">> }

Connectives ==
    { <<SP, "and", SP>>, <<SP, "and", SP, "not", SP>>, <<SP, ">", SP>>, <<NL>> }

\* ts[1] ks[1] ts[2] ... ks[n-1] ts[n]
RECURSIVE Joined(_, _, _)
Joined(ts, ks, n) ==
    IF n = 1 THEN ts[1] ELSE Joined(ts, ks, n - 1) \o ks[n - 1] \o ts[n]

\* conditions of the rules of a multi-rule document: one per kind of result,
\* and the texts the generated conditions leave out (white space around the
\* text, the empty text, '#' in a name, a call inside a where clause)
Catalogue ==
    { <<SP>> \o Has(<<"A">>) \o <<SP, "and", SP>> \o Has(<<"A">>) \o <<NL>>,
      Has(<<"#">>) \o <<SP, "and", SP>> \o Has(<<"A">>),
      Has(<<"A">>) \o Where(<<"x", SP, "in", SP, "[", "1", "]">>),
      Has(<<"A">>) \o Where(Has(<<"x">>)),
      Count(<<"X">>) \o <<SP, ">", SP, "5">>,
      <<>>,
      <<"5">> }

Names == {"r1", "r2"}

Rules ==
    [name : Names] \cup [name : Names, condition : Catalogue]

RECURSIVE DocsOf(_)
DocsOf(n) ==
    IF n = 0 THEN {<<>>}
    ELSE {Append(d, r) : d \in DocsOf(n - 1), r \in Rules}

\* documents of up to MaxRules rules
Documents == UNION {DocsOf(n) : n \in 0..MaxRules}

\* a document of one rule whose condition has n terms
OneRule(ts, ks, n) == <<[name |-> "r1", condition |-> Joined(ts, ks, n)]>>

-----------------------------------------------------------------------------
(* The parser after refactor-parser.py has rewritten its throw statements *)

NoToken == [type |-> "NONE", value |-> ""]
NoError == [kind |-> "NONE", expected |-> "", actual |-> ""]
NoText == "<none>"

\* the tokens lexer.next() can return
Tokens ==
    { [type |-> "IDENTIFIER", value |-> "trace"],
      [type |-> "IDENTIFIER", value |-> "has"],
      [type |-> "IDENTIFIER", value |-> "count"],
      [type |-> "IDENTIFIER", value |-> "foo"],
      [type |-> "DOT",        value |-> "."],
      [type |-> "LPAREN",     value |-> "("],
      [type |-> "RPAREN",     value |-> ")"],
      [type |-> "EQUALS",     value |-> "=="],
      [type |-> "NUMBER",     value |-> "5"],
      [type |-> "EOF",        value |-> ""] }

\* the places of the parser that throw, in the order of the parser's lines
ThrowSites ==
    { "trace", "dot", "function", "unknown_function",
      "has_lparen", "operation", "has_rparen",
      "where_lparen", "attribute", "where_operator", "where_rparen", "value",
      "count_lparen", "pattern", "count_rparen", "count_operator", "number" }

\* the description of what a site expects, as the replacement passes it
Expected(s) ==
    CASE s = "trace"          -> "'trace'"
      [] s = "dot"            -> "'.' after 'trace'"
      [] s = "function"       -> "function name (has/count)"
      [] s = "has_lparen"     -> "'(' after 'has'"
      [] s = "operation"      -> "operation name"
      [] s = "has_rparen"     -> "')' after operation name"
      [] s = "where_lparen"   -> "'(' after 'where'"
      [] s = "attribute"      -> "attribute name"
      [] s = "where_rparen"   -> "')' after where clause"
      [] s = "count_lparen"   -> "'(' after 'count'"
      [] s = "pattern"        -> "pattern"
      [] s = "count_rparen"   -> "')' after pattern"
      [] s = "number"         -> "number"
      [] OTHER                -> NoText

\* every site that names what it expects calls ParseError.unexpectedToken
FactoryUnexpectedEverywhere(s) ==
    CASE s \in {"where_operator", "count_operator"} -> "invalidOperator"
      [] s = "unknown_function" -> "INVALID_IDENTIFIER"
      [] s = "value"            -> "INVALID_VALUE"
      [] OTHER                  -> "unexpectedToken"

\* what the replacement text of a site throws
Factory(s) ==
    CASE s \in {"trace", "function", "operation", "attribute", "pattern", "number"}
            -> "unexpectedToken"
      [] s \in {"dot", "has_lparen", "has_rparen", "where_lparen", "where_rparen",
                "count_lparen", "count_rparen"}
            -> "missingToken"
      [] s \in {"where_operator", "count_operator"} -> "invalidOperator"
      [] s = "unknown_function" -> "INVALID_IDENTIFIER"
      [] s = "value"            -> "INVALID_VALUE"

\* the ParseError a factory builds from the arguments the site passes
ParseError(s, tok) ==
    CASE Factory(s) = "unexpectedToken" ->
            [kind |-> "UNEXPECTED_TOKEN", expected |-> Expected(s), actual |-> tok.value]
      [] Factory(s) = "missingToken" ->
            [kind |-> "MISSING_TOKEN", expected |-> Expected(s), actual |-> NoText]
      [] Factory(s) = "invalidOperator" ->
            [kind |-> "INVALID_OPERATOR", expected |-> NoText, actual |-> tok.value]
      [] Factory(s) = "INVALID_IDENTIFIER" ->
            [kind |-> "INVALID_IDENTIFIER", expected |-> NoText, actual |-> tok.value]
      [] Factory(s) = "INVALID_VALUE" ->
            [kind |-> "INVALID_VALUE", expected |-> NoText, actual |-> tok.type]

\* the token a site lets the parser go on with
Accepts(s, tok) ==
    CASE s = "trace"    -> tok.value = "trace"
      [] s = "dot"      -> tok.type = "DOT"
      [] s = "function" -> tok.type = "IDENTIFIER" /\ tok.value \in {"has", "count"}
      [] s \in {"has_lparen", "where_lparen", "count_lparen"} -> tok.type = "LPAREN"
      [] s \in {"has_rparen", "where_rparen", "count_rparen"} -> tok.type = "RPAREN"
      [] s \in {"operation", "attribute", "pattern"} -> tok.type = "IDENTIFIER"
      [] s \in {"where_operator", "count_operator"} -> tok.type = "EQUALS"
      [] s \in {"value", "number"} -> tok.type = "NUMBER"

\* the site that throws when tok is refused at s
ThrowSite(s, tok) ==
    IF s = "function" /\ tok.type = "IDENTIFIER" THEN "unknown_function" ELSE s

\* where the parser stands after s accepted tok
NextSites(s, tok) ==
    CASE s = "trace"          -> {"dot"}
      [] s = "dot"            -> {"function"}
      [] s = "function"       -> IF tok.value = "has" THEN {"has_lparen"} ELSE {"count_lparen"}
      [] s = "has_lparen"     -> {"operation"}
      [] s = "operation"      -> {"has_rparen"}
      [] s = "has_rparen"     -> {"parsed", "where_lparen"}
      [] s = "where_lparen"   -> {"attribute"}
      [] s = "attribute"      -> {"where_operator"}
      [] s = "where_operator" -> {"value"}
      [] s = "value"          -> {"where_rparen"}
      [] s = "where_rparen"   -> {"parsed"}
      [] s = "count_lparen"   -> {"pattern"}
      [] s = "pattern"        -> {"count_rparen"}
      [] s = "count_rparen"   -> {"count_operator"}
      [] s = "count_operator" -> {"number"}
      [] s = "number"         -> {"parsed"}

InitParser ==
    /\ input = <<>>
    /\ data = <<>>
    /\ idx = 1
    /\ converted_count = 0
    /\ needs_review_count = 0
    /\ produced = <<>>
    /\ output = [converted |-> -1, needs_review |-> -1, rules |-> <<>>]
    /\ pc = "idle"
    /\ run = 1
    /\ site = "trace"
    /\ token = NoToken
    /\ error = NoError

\* lexer.next() returns the token the site expects
Accept ==
    /\ site \in ThrowSites
    /\ error = NoError
    /\ \E tok \in Tokens :
        /\ Accepts(site, tok)
        /\ token' = tok
        /\ site' \in NextSites(site, tok)
    /\ UNCHANGED <<error, convVars>>

\* lexer.next() returns another token: the site throws
Throw ==
    /\ site \in ThrowSites
    /\ error = NoError
    /\ \E tok \in Tokens :
        /\ ~Accepts(site, tok)
        /\ token' = tok
        /\ site' = ThrowSite(site, tok)
        /\ error' = ParseError(ThrowSite(site, tok), tok)
    /\ UNCHANGED convVars

NextParser == Accept \/ Throw

SpecParser == InitParser /\ [][NextParser]_vars

-----------------------------------------------------------------------------
(* convert_yaml_file *)

NoOutput == [converted |-> -1, needs_review |-> -1, rules |-> <<>>]

HasCondition(rule) == "condition" \in DOMAIN rule

\* 'TODO' in new_condition or '#' in new_condition
NeedsReview(new_condition) ==
    Contains(new_condition, <<"TODO">>) \/ Contains(new_condition, <<"#">>)

HasNotInOnly(new_condition) ==
    Contains(new_condition, <<SP, "not", SP, "in", SP, "[">>)

\* ' not in [' in new_condition or ' in [' in new_condition
HasIn(new_condition) ==
    \/ Contains(new_condition, <<SP, "not", SP, "in", SP, "[">>)
    \/ Contains(new_condition, <<SP, "in", SP, "[">>)

\* the condition written back to the rule
Written(new_condition) ==
    IF HasIn(new_condition) THEN TodoIn \o <<NL>> \o new_condition
    ELSE new_condition

ReviewIncrementInOnly(new_condition) ==
    IF HasIn(new_condition) THEN 1 ELSE 0

\* what one rule adds to needs_review_count
ReviewIncrement(new_condition) ==
    (IF NeedsReview(new_condition) THEN 1 ELSE 0)
    + (IF HasIn(new_condition) THEN 1 ELSE 0)

RenamedRule(rule, new_condition) ==
    [name |-> "converted", condition |-> Written(new_condition)]

\* rule['condition'] = new_condition
UpdatedRule(rule, new_condition) ==
    [rule EXCEPT !.condition = Written(new_condition)]

Init ==
    /\ \/ \E n \in 1..MaxTerms :
             \E ts \in [1..n -> Terms], ks \in [1..(n - 1) -> Connectives] :
                input = OneRule(ts, ks, n)
       \/ input \in Documents
    /\ data = input
    /\ idx = 1
    /\ converted_count = 0
    /\ needs_review_count = 0
    /\ produced = <<>>
    /\ output = NoOutput
    /\ pc = "loop"
    /\ run = 1
    /\ site = "idle"
    /\ token = NoToken
    /\ error = NoError

\* one iteration of `for rule in data.get('rules', [])`
LoopBody ==
    /\ pc = "loop"
    /\ idx <= Len(data)
    /\ LET rule == data[idx] IN
        IF HasCondition(rule)
        THEN LET new_condition == convert_condition(rule.condition) IN
             /\ produced' = new_condition
             /\ needs_review_count' = needs_review_count + ReviewIncrement(new_condition)
             /\ data' = [data EXCEPT ![idx] = UpdatedRule(rule, new_condition)]
             /\ converted_count' = converted_count + 1
        ELSE UNCHANGED <<produced, needs_review_count, data, converted_count>>
    /\ idx' = idx + 1
    /\ UNCHANGED <<input, output, pc, run, parserVars>>

\* the loop is over: write the header and the document, return the counters
WriteOutput ==
    /\ pc = "loop"
    /\ idx > Len(data)
    /\ output' = [converted |-> converted_count,
                  needs_review |-> needs_review_count,
                  rules |-> data]
    /\ pc' = "done"
    /\ UNCHANGED <<input, data, idx, converted_count, needs_review_count,
                   produced, run, parserVars>>

\* the script is run again, on the document it wrote
RunAgain ==
    /\ pc = "done"
    /\ run = 1
    /\ input' = output.rules
    /\ data' = output.rules
    /\ idx' = 1
    /\ converted_count' = 0
    /\ needs_review_count' = 0
    /\ produced' = <<>>
    /\ output' = NoOutput
    /\ pc' = "loop"
    /\ run' = 2
    /\ UNCHANGED parserVars

Next == LoopBody \/ WriteOutput \/ RunAgain

Spec == Init /\ [][Next]_vars

-----------------------------------------------------------------------------
(* The current dialect: the when/always/never grammar of the parser *)

Idents == {"A", "X", "x"}
Numbers == {"1", "5"}

RECURSIVE NoSpace(_)
NoSpace(s) ==
    IF s = <<>> THEN <<>>
    ELSE IF IsSpace(Head(s)) THEN NoSpace(Tail(s))
    ELSE <<Head(s)>> \o NoSpace(Tail(s))

IsAt(t, p, S) == p # 0 /\ p <= Len(t) /\ t[p] \in S

Eat(t, p, S) == IF IsAt(t, p, S) THEN p + 1 ELSE 0

\* Value := NUMBER | '[' Value (',' Value)* ']'   (lists of numbers)
RECURSIVE Values(_, _)
Values(t, p) ==
    LET v == Eat(t, p, Numbers)
    IN  IF IsAt(t, v, {","}) THEN Values(t, v + 1) ELSE v

Value(t, p) ==
    IF IsAt(t, p, {"["}) THEN Eat(t, Values(t, p + 1), {"]"})
    ELSE Eat(t, p, Numbers)

\* Term := IDENT ('.' 'where' '(' IDENT ComparisonOp Value ')')?
\*       | 'count' '(' IDENT ')' ComparisonOp NUMBER
Term(t, p) ==
    IF IsAt(t, p, {"count("})
    THEN Eat(t, Eat(t, Eat(t, Eat(t, p + 1, Idents), {")"}),
                    {"==", "!=", ">", "<", ">=", "<="}), Numbers)
    ELSE LET n == Eat(t, p, Idents)
         IN  IF IsAt(t, n, {".where("})
             THEN Eat(t, Value(t, Eat(t, Eat(t, n + 1, Idents),
                                      {"==", "!=", ">", "<", ">=", "<="})), {")"})
             ELSE n

\* TermList := Term (('and'|'or') Term)*
RECURSIVE TermList(_, _)
TermList(t, p) ==
    LET e == Term(t, p)
    IN  IF IsAt(t, e, {"and", "or"}) THEN TermList(t, e + 1) ELSE e

Block(t, p, kw) == Eat(t, TermList(t, Eat(t, Eat(t, p, {kw}), {"{"})), {"}"})

OptBlock(t, p, kw) == IF IsAt(t, p, {kw}) THEN Block(t, p, kw) ELSE p

\* ConditionBlock := 'when' '{' TermList '}' ('always' '{' TermList '}')?
\*                   ('never' '{' TermList '}')?
ValidDsl(text) ==
    LET t == NoSpace(text)
    IN  OptBlock(t, OptBlock(t, Block(t, 1, "when"), "always"), "never")
        = Len(t) + 1

-----------------------------------------------------------------------------
(* Claims about the converter *)

\* the loop has just converted the condition of rule idx - 1
JustConverted == idx > 1 /\ HasCondition(input[idx - 1])

OldCondition == input[idx - 1].condition

EndsWith(s, post) ==
    Len(s) >= Len(post) /\ SubSeq(s, Len(s) - Len(post) + 1, Len(s)) = post

\* every line of the text is a comment
AllComment(text) ==
    /\ text # <<>>
    /\ text[1] = "#"
    /\ \A i \in 1..Len(text) : text[i] = NL => (i < Len(text) /\ text[i + 1] = "#")

\* C1: when no recognizer matches the trimmed input, convert_condition returns
\* the manual-review marker followed by the original text, all of it inside a
\* comment.
C1_FallbackIsComment ==
    (JustConverted /\ Fired(OldCondition) = 11) =>
        /\ StartsWith(produced, TodoManual \o <<NL>>)
        /\ EndsWith(produced, Strip(OldCondition))
        /\ AllComment(produced)

\* C2: a text that matches a specific shape (1..5) and the general shape 6
\* gets a specific shape's output, never the general shape's.
C2_SpecificBeforeGeneral ==
    JustConverted =>
        LET c == Strip(OldCondition)
            specific == {n \in 1..5 : Matches(n, c)}
        IN  (specific # {} /\ Matches(6, c)) =>
                /\ produced \in {Recognizer(n, c).out : n \in specific}
                /\ produced # Recognizer(6, c).out

C2_Witness ==
    /\ JustConverted
    /\ Matches(2, Strip(OldCondition))
    /\ Matches(6, Strip(OldCondition))
    /\ Contains(produced, <<".where(">>)

\* C4: the output of convert_condition is valid current-dialect text or
\* begins with a "# TODO:" review marker.
C4_ValidOrMarked ==
    JustConverted => (ValidDsl(produced) \/ StartsWith(produced, TodoTag))

\* the text holds an ` in [` set-membership construct
InConstruct(text) ==
    \E i \in 2..(Len(text) - 2) :
        /\ text[i - 1] = SP
        /\ text[i] = "in"
        /\ text[i + 1] = SP
        /\ text[i + 2] = "["

\* C7: when the text produced for a rule holds an `in [...]` construct, the
\* condition written back begins with a needs-review marker.
C7_InIsMarked ==
    (JustConverted /\ InConstruct(produced)) =>
        StartsWith(data[idx - 1].condition, TodoTag)

C7_Witness ==
    /\ JustConverted
    /\ InConstruct(produced)
    /\ Fired(OldCondition) \in 1..6
    /\ ~StartsWith(produced, TodoTag)

\* C8: the conversion applied to its own output, or to text of the current
\* dialect, matches no legacy recognizer and takes the fallback.
C8_NotSelfApplicable ==
    JustConverted =>
        /\ Fired(produced) = 11
        /\ Fired(data[idx - 1].condition) = 11
        /\ StartsWith(OldCondition, <<"when">>) => Fired(OldCondition) = 11
        /\ run = 2 =>
            /\ Fired(OldCondition) = 11
            /\ produced = Fallback(Strip(OldCondition))

C8_Witness ==
    /\ JustConverted
    /\ run = 2
    /\ StartsWith(OldCondition, <<"when">>)
    /\ StartsWith(produced, TodoManual)

\* the rules among the first n of the input that have a condition
WithCondition(n) == {i \in 1..n : HasCondition(input[i])}

\* C9: the converter changes only the condition field: same rules in the same
\* order, other fields unchanged, rules without a condition untouched and not
\* counted, each condition replaced by its conversion.
C9_OnlyConditionChanges ==
    /\ Len(data) = Len(input)
    /\ \A i \in 1..Len(input) :
        IF i < idx /\ HasCondition(input[i])
        THEN /\ DOMAIN data[i] = DOMAIN input[i]
             /\ data[i].name = input[i].name
             /\ data[i].condition = Written(convert_condition(input[i].condition))
        ELSE data[i] = input[i]
    /\ converted_count = Cardinality(WithCondition(idx - 1))
    /\ pc = "done" => (output.rules = data /\ output.converted = converted_count)

C9_Witness ==
    /\ pc = "done"
    /\ Len(input) = 2
    /\ HasCondition(input[1])
    /\ ~HasCondition(input[2])
    /\ data[1] # input[1]
    /\ input[1].name # input[2].name

\* the rules among the first n of the input whose output is flagged
Flagged(n) ==
    {i \in WithCondition(n) :
        LET new_condition == convert_condition(input[i].condition)
        IN  NeedsReview(new_condition) \/ HasIn(new_condition)}

\* C6: the counters are the number of rules processed and the number of rules
\* flagged needs-review; a rule counts at most once, so the second never
\* exceeds the first.
C6_CountersCountRules ==
    /\ converted_count = Cardinality(WithCondition(idx - 1))
    /\ needs_review_count = Cardinality(Flagged(idx - 1))
    /\ needs_review_count <= converted_count

\* the step of LoopBody that converts the condition of rule idx
ConvertsRule ==
    /\ pc = "loop"
    /\ idx <= Len(data)
    /\ HasCondition(data[idx])
    /\ idx' = idx + 1

\* what the step adds to needs_review_count
Counted == needs_review_count' - needs_review_count

\* when { ... } always|never { ... }
IsWhenBlock(text) ==
    /\ StartsWith(text, <<"when", SP, "{", SP>>)
    /\ \/ Contains(text, <<SP, "}", SP, "always", SP, "{", SP>>)
       \/ Contains(text, <<SP, "}", SP, "never", SP, "{", SP>>)
    /\ EndsWith(text, <<SP, "}">>)

\* a "# TODO: Add always/never clause..." line, then when { ... }
IsTodoWhen(text) ==
    /\ \/ StartsWith(text, TodoAddClause \o <<NL, "when", SP, "{", SP>>)
       \/ StartsWith(text, TodoAddClauseAlert \o <<NL, "when", SP, "{", SP>>)
    /\ EndsWith(text, <<SP, "}">>)
    /\ ~Contains(text, <<"always", SP, "{">>)
    /\ ~Contains(text, <<"never", SP, "{">>)

\* C3 as stated: shapes 1..6 give a when/always|never block with no review
\* marker and the rule is not counted as needs-review; shapes 7..10 give a
\* TODO line followed by a when block and the rule is counted.
C3_FiredDecidesFlag ==
    [][ConvertsRule =>
        LET f == Fired(data[idx].condition) IN
        /\ f \in 1..6 =>
            /\ IsWhenBlock(produced')
            /\ ~Contains(produced', TodoTag)
            /\ Counted = 0
        /\ f \in 7..10 =>
            /\ IsTodoWhen(produced')
            /\ Counted >= 1
    ]_vars

\* C3, amended: shapes 1..6 give a when/always|never block with no review
\* marker, and the rule is counted as needs-review exactly when that block
\* holds '#', 'TODO' or an ` in [` construct; shapes 7..10 give a TODO line
\* followed by a when block and the rule is counted.
C3_FiredDecidesFlagUnlessCopied ==
    [][ConvertsRule =>
        LET f == Fired(data[idx].condition) IN
        /\ f \in 1..6 =>
            /\ IsWhenBlock(produced')
            /\ ~Contains(produced', TodoTag)
            /\ Counted = 0 <=>
                ~(\/ Contains(produced', <<"#">>)
                  \/ Contains(produced', <<"TODO">>)
                  \/ InConstruct(produced'))
        /\ f \in 7..10 =>
            /\ IsTodoWhen(produced')
            /\ Counted >= 1
    ]_vars

C3_Witness ==
    /\ JustConverted
    /\ idx = 2
    /\ Fired(OldCondition) \in 1..6
    /\ InConstruct(produced)
    /\ needs_review_count = 1

\* the whole trimmed text is an instance of one of the combined shapes 1..6
ExactShape(old_condition) ==
    LET c == Strip(old_condition)
        n == FirstMatch(c)
    IN  n \in 1..6 /\ Recognizer(n, c).end = Len(c) + 1

\* C5: a text that is not, as a whole, an instance of one of the combined
\* shapes 1..6 gets a needs-review marker in its output and is counted.
C5_InexactIsMarked ==
    [][ConvertsRule =>
        (~ExactShape(data[idx].condition) =>
            /\ Contains(data'[idx].condition, TodoTag)
            /\ Counted >= 1)
    ]_vars

-----------------------------------------------------------------------------
(* Claims about the refactored parser *)

PunctuationExpected ==
    { "'.' after 'trace'", "'(' after 'has'", "')' after operation name",
      "'(' after 'where'", "')' after where clause", "'(' after 'count'",
      "')' after pattern" }

NameExpected ==
    { "'trace'", "function name (has/count)", "operation name", "attribute name",
      "pattern", "number" }

\* C10 as stated: a site that finds a token of the wrong kind or value
\* raises UNEXPECTED_TOKEN with the expected description and the actual
\* token text; MISSING_TOKEN is raised only when there is no token to blame.
C10_WrongTokenIsUnexpected ==
    error # NoError =>
        /\ (token.type # "EOF" /\ error.expected \in PunctuationExpected \cup NameExpected) =>
            /\ error.kind = "UNEXPECTED_TOKEN"
            /\ error.actual = token.value
        /\ error.kind = "MISSING_TOKEN" => token.type = "EOF"

\* C10, amended: the sites that expect 'trace', a name or a number raise
\* UNEXPECTED_TOKEN with the expected description and the actual token text;
\* the seven sites that expect '.', '(' or ')' raise MISSING_TOKEN with the
\* expected description only, whatever token is present.
C10_PunctuationIsMissing ==
    error # NoError =>
        /\ error.expected \in NameExpected =>
            /\ error.kind = "UNEXPECTED_TOKEN"
            /\ error.actual = token.value
        /\ error.expected \in PunctuationExpected =>
            /\ error.kind = "MISSING_TOKEN"
            /\ error.actual = NoText
        /\ error.kind \in {"UNEXPECTED_TOKEN", "MISSING_TOKEN"} =>
            error.expected \in PunctuationExpected \cup NameExpected
        /\ error.kind = "MISSING_TOKEN" <=> site \in
            {"dot", "has_lparen", "has_rparen", "where_lparen", "where_rparen",
             "count_lparen", "count_rparen"}

C10_Witness ==
    /\ site = "dot"
    /\ token.type = "LPAREN"
    /\ error.kind = "MISSING_TOKEN"
    /\ error.expected = "'.' after 'trace'"

=============================================================================
